---- MODULE Spec2Model ----
(***************************************************************************)
(* Model of RequestHandler.Payment and its two operation composers         *)
(* (handlers/request_handler_payment.go).  One execution of the handler is *)
(* a sequential program; its collaborators (AddressResolver, Horizon, the  *)
(* build/keypair libraries) answer nondeterministically.  Form fields are  *)
(* inputs: a field gets its value when the handler first reads it.         *)
(***************************************************************************)
EXTENDS Integers, Sequences, FiniteSets, TLC

(***************************************************************************)
(* Bounds of the model                                                     *)
(***************************************************************************)
\* handler executions that exist (net/http runs one goroutine per request)
NumHandlers == 2
\* path[i][asset_code] / path[i][asset_issuer] fields a form may carry when the
\* composer alone is explored: i in 0..MaxPathIndex
MaxPathIndex == 3
\* the same, when the whole handler is explored
MaxHandlerPathIndex == 1

Handlers == 1..NumHandlers

(***************************************************************************)
(* Go values                                                               *)
(***************************************************************************)
\* a nil pointer / nil interface / nil error
Nil == [nil |-> TRUE]
\* a non-nil *string
Ptr(v) == [nil |-> FALSE, val |-> v]

\* Strings the handler parses (memo, sequence numbers) are sequences of
\* one-character strings; all other strings are opaque.
EmptyStr == <<>>

(***************************************************************************)
(* uint64 arithmetic: a value is 4 little-endian limbs of 16 bits          *)
(***************************************************************************)
UintBits == 64
LimbBase == 2^16
NumLimbs == UintBits \div 16

Uint64Zero == [i \in 1..NumLimbs |-> 0]
Uint64Max == [i \in 1..NumLimbs |-> LimbBase - 1]

RECURSIVE MulAddLimbs(_, _, _)
\* limbs * m + carry, limb by limb; the carry out of the top limb is returned apart
MulAddLimbs(limbs, m, carry) ==
  IF limbs = <<>>
    THEN [limbs |-> <<>>, carry |-> carry]
    ELSE LET t == Head(limbs) * m + carry
             rest == MulAddLimbs(Tail(limbs), m, t \div LimbBase)
         IN  [limbs |-> <<t % LimbBase>> \o rest.limbs, carry |-> rest.carry]

\* Go's `x + 1` on a uint64: the carry out of bit 63 is dropped
Uint64AddOne(x) == MulAddLimbs(x, 1, 1).limbs

DecimalDigits == <<"0", "1", "2", "3", "4", "5", "6", "7", "8", "9">>
IsDecimalDigit(c) == \E d \in 1..Len(DecimalDigits) : DecimalDigits[d] = c
DecimalValue(c) == (CHOOSE d \in 1..Len(DecimalDigits) : DecimalDigits[d] = c) - 1

RECURSIVE ParseUintDigits(_, _)
ParseUintDigits(s, acc) ==
  IF s = <<>> THEN [err |-> FALSE, val |-> acc]
  ELSE IF ~IsDecimalDigit(Head(s)) THEN [err |-> TRUE, val |-> Uint64Zero]
  ELSE LET r == MulAddLimbs(acc, 10, DecimalValue(Head(s)))
       IN  IF r.carry > 0
             THEN [err |-> TRUE, val |-> Uint64Max]
             ELSE ParseUintDigits(Tail(s), r.limbs)

\* strconv.ParseUint(s, 10, 64): syntax error on "" or a non-digit, range error
\* when the value does not fit 64 bits
ParseUint(s) ==
  IF s = <<>> THEN [err |-> TRUE, val |-> Uint64Zero] ELSE ParseUintDigits(s, Uint64Zero)

(***************************************************************************)
(* encoding/hex                                                            *)
(***************************************************************************)
HexDigits == <<"0", "1", "2", "3", "4", "5", "6", "7", "8", "9",
               "a", "b", "c", "d", "e", "f">>
HexUpper == <<"A", "B", "C", "D", "E", "F">>
IsHexDigit(c) ==
  \/ \E d \in 1..Len(HexDigits) : HexDigits[d] = c
  \/ \E d \in 1..Len(HexUpper) : HexUpper[d] = c
HexValue(c) ==
  IF \E d \in 1..Len(HexDigits) : HexDigits[d] = c
    THEN (CHOOSE d \in 1..Len(HexDigits) : HexDigits[d] = c) - 1
    ELSE (CHOOSE d \in 1..Len(HexUpper) : HexUpper[d] = c) + 9

\* hex.DecodeString(s): an error on odd length or a non-hex character, else one
\* byte per two characters
HexDecodeString(s) ==
  IF Len(s) % 2 = 1 \/ \E i \in 1..Len(s) : ~IsHexDigit(s[i])
    THEN [err |-> TRUE, bytes |-> <<>>]
    ELSE [err |-> FALSE,
          bytes |-> [i \in 1..(Len(s) \div 2) |->
                       HexValue(s[2 * i - 1]) * 16 + HexValue(s[2 * i])]]

(***************************************************************************)
(* strings.Contains on error texts: a text is a sequence of fragments      *)
(***************************************************************************)
StringsContains(s, substr) ==
  \E i \in 1..(Len(s) - Len(substr) + 1) : SubSeq(s, i, i + Len(substr) - 1) = substr

(***************************************************************************)
(* Inputs: form values and collaborator replies                            *)
(***************************************************************************)
\* keypair.Parse accepts an address (G...) or a seed (S...); Address() of either
\* is the address
KeyAddress ==
  [k \in {"GSOURCE", "SSOURCE", "GDEST", "GISSUER"} |->
     IF k = "SSOURCE" THEN "GSOURCE" ELSE k]
KeypairParse(s) ==
  IF s \in DOMAIN KeyAddress
    THEN [err |-> FALSE, address |-> KeyAddress[s]]
    ELSE [err |-> TRUE, address |-> ""]

Sources == {"SSOURCE", "not-a-key"}
Destinations == {"bob*stellar.org"}
PaymentTypes == {"", "payment", "path_payment", "refund"}
Amounts == {"10"}
AssetCodes == {"", "USD"}
AssetIssuers == {"", "GISSUER", "not-a-key"}
PathLegIssuers == {"", "GISSUER"}

MaxUint64Str ==
  <<"1", "8", "4", "4", "6", "7", "4", "4", "0", "7",
    "3", "7", "0", "9", "5", "5", "1", "6", "1", "5">>
OverUint64Str ==
  <<"1", "8", "4", "4", "6", "7", "4", "4", "0", "7",
    "3", "7", "0", "9", "5", "5", "1", "6", "1", "6">>
HashLen == 32
HashHex == [i \in 1..(2 * HashLen) |-> IF i % 2 = 1 THEN "a" ELSE "5"]

MemoTypes == {"", "id", "text", "hash", "return"}
Memos ==
  {EmptyStr, <<"7">>, <<"0", "7">>, <<"7", "x">>, HashHex, MaxUint64Str, OverUint64Str}
SequenceNumbers == {<<"4", "1">>, MaxUint64Str, OverUint64Str, <<"4", "x">>}

\* StellarDestination{AccountId string, MemoType *string, Memo *string}
ResolveReplies ==
  {[err |-> TRUE]} \cup
  {[err |-> FALSE, dest |-> [AccountId |-> a, MemoType |-> mt, Memo |-> m]] :
     a \in {"GDEST", "not-a-key"},
     mt \in {Nil, Ptr("id"), Ptr("return")},
     m \in {Nil, Ptr(<<"7">>)}}

\* horizon.AccountResponse{SequenceNumber string}
\* a failed load says why: the handler looks at err != nil only
LoadAccountReplies ==
  {[err |-> TRUE, cause |-> c] : c \in {"not found", "connection refused"}} \cup
  {[err |-> FALSE, SequenceNumber |-> s] : s \in SequenceNumbers}

SubmitReplies ==
  {[err |-> TRUE, response |-> ""]} \cup
  {[err |-> FALSE, response |-> r] : r \in {"tx-hash-1", "tx-hash-2"}}

\* the error a builder of go-stellar-base/build reports, nil when it built
Error(text) == [nil |-> FALSE, text |-> text]
AssetCodeLengthText == <<"Asset code length is invalid">>
CannotParseAmountText == <<"cannot parse amount">>
BuilderErrors ==
  {Nil,
   Error(AssetCodeLengthText),
   Error(<<"Error parsing amount: ">> \o CannotParseAmountText \o <<": 10x">>),
   Error(<<"credit: ">> \o AssetCodeLengthText),
   Error(<<"invalid address">>)}

NetworkPassphrase == "Test SDF Network ; September 2015"

(***************************************************************************)
(* State                                                                   *)
(***************************************************************************)
VARIABLES
  pc,                \* where each execution of Payment stands
  form,              \* r.PostForm: the fields read so far
  trace,             \* collaborator calls made and responses written, in order
  sourceKeypair,     \* line 19
  destinationObject, \* line 27
  operationBuilder,  \* line 41
  memoMutator,       \* line 83
  sequenceNumber,    \* line 121
  tx,                \* line 139
  txeB64             \* line 158

vars == <<pc, form, trace, sourceKeypair, destinationObject, operationBuilder,
          memoMutator, sequenceNumber, tx, txeB64>>

\* trace entries: a collaborator call with its argument and what it returned, or a
\* response written to the http.ResponseWriter
Call(name, arg, reply) == [ev |-> name, arg |-> arg, reply |-> reply]
WriteError(code) == [ev |-> "writeError", arg |-> code, reply |-> Nil]
Write(body) == [ev |-> "write", arg |-> body, reply |-> Nil]

\* r.PostFormValue(name): "" for a field the form does not carry
PostFormValue(f, name) == IF name \in DOMAIN f THEN f[name] ELSE ""

\* the executions under way; the others never start
Started == {1}

Init ==
  /\ pc = [h \in Handlers |-> IF h \in Started THEN "start" ELSE "idle"]
  /\ form = [h \in Handlers |-> <<>>]
  /\ trace = [h \in Handlers |-> <<>>]
  /\ sourceKeypair = [h \in Handlers |-> Nil]
  /\ destinationObject = [h \in Handlers |-> Nil]
  /\ operationBuilder = [h \in Handlers |-> Nil]
  /\ memoMutator = [h \in Handlers |-> Nil]
  /\ sequenceNumber = [h \in Handlers |-> Nil]
  /\ tx = [h \in Handlers |-> Nil]
  /\ txeB64 = [h \in Handlers |-> Nil]

\* the handler reads form fields: they join the fields read so far
Read(h, fields) == form' = [form EXCEPT ![h] = fields @@ @]
Goto(h, label) == pc' = [pc EXCEPT ![h] = label]
Emit(h, events) == trace' = [trace EXCEPT ![h] = @ \o events]

\* lines 18-24
ParseSource(h) ==
  /\ pc[h] = "start"
  /\ \E source \in Sources :
       LET kp == KeypairParse(source)
       IN  /\ Read(h, "source" :> source)
           /\ IF kp.err
                THEN /\ Emit(h, <<WriteError("PaymentInvalidSource")>>)
                     /\ Goto(h, "done")
                     /\ UNCHANGED sourceKeypair
                ELSE /\ sourceKeypair' = [sourceKeypair EXCEPT ![h] = kp]
                     /\ Goto(h, "resolve")
                     /\ UNCHANGED trace
  /\ UNCHANGED <<destinationObject, operationBuilder, memoMutator, sequenceNumber,
                 tx, txeB64>>

\* a resolution that trusts the account id the resolver returned
ResolveTrusting(h) ==
  /\ pc[h] = "resolve"
  /\ \E destination \in Destinations, reply \in ResolveReplies :
       /\ Read(h, "destination" :> destination)
       /\ IF reply.err
            THEN /\ Emit(h, <<Call("Resolve", destination, reply),
                              WriteError("PaymentCannotResolveDestination")>>)
                 /\ Goto(h, "done")
                 /\ UNCHANGED destinationObject
            ELSE /\ destinationObject' = [destinationObject EXCEPT ![h] = reply.dest]
                 /\ Emit(h, <<Call("Resolve", destination, reply)>>)
                 /\ Goto(h, "dispatch")
  /\ UNCHANGED <<sourceKeypair, operationBuilder, memoMutator, sequenceNumber,
                 tx, txeB64>>

\* lines 26-39
Resolve(h) ==
  /\ pc[h] = "resolve"
  /\ \E destination \in Destinations, reply \in ResolveReplies :
       /\ Read(h, "destination" :> destination)
       /\ IF reply.err
            THEN /\ Emit(h, <<Call("Resolve", destination, reply),
                              WriteError("PaymentCannotResolveDestination")>>)
                 /\ Goto(h, "done")
                 /\ UNCHANGED destinationObject
            ELSE /\ destinationObject' = [destinationObject EXCEPT ![h] = reply.dest]
                 /\ IF KeypairParse(reply.dest.AccountId).err
                      THEN /\ Emit(h, <<Call("Resolve", destination, reply),
                                        WriteError("PaymentInvalidDestination")>>)
                           /\ Goto(h, "done")
                      ELSE /\ Emit(h, <<Call("Resolve", destination, reply)>>)
                           /\ Goto(h, "dispatch")
  /\ UNCHANGED <<sourceKeypair, operationBuilder, memoMutator, sequenceNumber,
                 tx, txeB64>>

(***************************************************************************)
(* Operation composers                                                     *)
(***************************************************************************)
\* b.Asset{Code, Issuer, Native}
NativeAsset == [Code |-> "", Issuer |-> "", Native |-> TRUE]
CreditAsset(code, issuer) == [Code |-> code, Issuer |-> issuer, Native |-> FALSE]

\* b.Payment(b.Destination{..}, b.CreditAmount{..} | b.NativeAmount{..})
PaymentBuilder(destination, asset, amount, err) ==
  [kind |-> "Payment", Destination |-> destination, Asset |-> asset,
   Amount |-> amount, Err |-> err]
\* b.CreateAccount(b.Destination{..}, b.NativeAmount{..})
CreateAccountBuilder(destination, amount, err) ==
  [kind |-> "CreateAccount", Destination |-> destination, Asset |-> NativeAsset,
   Amount |-> amount, Err |-> err]
\* b.PathPayment(b.Destination{..}, b.PathSend{..}, b.PathDestination{..}, b.Path{..})
PathPaymentBuilder(destination, sendAsset, sendMax, destAsset, destAmount, path, err) ==
  [kind |-> "PathPayment", Destination |-> destination,
   SendAsset |-> sendAsset, MaxAmount |-> sendMax,
   DestAsset |-> destAsset, DestAmount |-> destAmount,
   Path |-> path, Err |-> err]

\* what a composer returns, and the collaborator calls it made
Composed(op, errorResponse, calls) ==
  [operationBuilder |-> op, errorResponse |-> errorResponse, calls |-> calls]

\* lines 194-198, 210-214, 217-221, 298-302: a builder that reports an error
\* makes the composer answer ServerError
BuilderErrorResponse(builderErr) == IF builderErr # Nil THEN Ptr("ServerError") ELSE Nil

\* an issued-asset payment that also looks the destination up
createIssuedPaymentWithLookup(f, dest, loadReply, builderErr) ==
  LET issuerKeypair == KeypairParse(PostFormValue(f, "asset_issuer"))
  IN  IF issuerKeypair.err
        THEN Composed(Nil, Ptr("PaymentInvalidIssuer"), <<>>)
        ELSE Composed(PaymentBuilder(dest.AccountId,
                                     CreditAsset(PostFormValue(f, "asset_code"),
                                                 issuerKeypair.address),
                                     PostFormValue(f, "amount"), builderErr),
                      BuilderErrorResponse(builderErr),
                      <<Call("LoadAccount", dest.AccountId, loadReply)>>)

\* lines 181-198: asset_code and asset_issuer are both given
createIssuedPayment(f, dest, loadReply, builderErr) ==
  LET issuerKeypair == KeypairParse(PostFormValue(f, "asset_issuer"))
  IN  IF issuerKeypair.err
        THEN Composed(Nil, Ptr("PaymentInvalidIssuer"), <<>>)
        ELSE Composed(PaymentBuilder(dest.AccountId,
                                     CreditAsset(PostFormValue(f, "asset_code"),
                                                 issuerKeypair.address),
                                     PostFormValue(f, "amount"), builderErr),
                      BuilderErrorResponse(builderErr), <<>>)

\* a native payment built as Payment whatever the lookup returned
createNativePaymentIgnoringLookup(f, dest, loadReply, builderErr) ==
  Composed(PaymentBuilder(dest.AccountId, NativeAsset,
                          PostFormValue(f, "amount"), builderErr),
           BuilderErrorResponse(builderErr),
           <<Call("LoadAccount", dest.AccountId, loadReply)>>)

\* lines 199-222: asset_code and asset_issuer are both empty.  loadReply: what
\* Horizon.LoadAccount returns for the destination
createNativePayment(f, dest, loadReply, builderErr) ==
  IF loadReply.err
    THEN Composed(CreateAccountBuilder(dest.AccountId,
                                       PostFormValue(f, "amount"), builderErr),
                  BuilderErrorResponse(builderErr),
                  <<Call("LoadAccount", dest.AccountId, loadReply)>>)
    ELSE Composed(PaymentBuilder(dest.AccountId, NativeAsset,
                                 PostFormValue(f, "amount"), builderErr),
                  BuilderErrorResponse(builderErr),
                  <<Call("LoadAccount", dest.AccountId, loadReply)>>)

\* lines 176-229.  f: the form fields; builderErr: what the operation builder reports
createPaymentOperation(f, dest, loadReply, builderErr) ==
  LET assetCode == PostFormValue(f, "asset_code")
      assetIssuer == PostFormValue(f, "asset_issuer")
  IN  IF assetCode # "" /\ assetIssuer # ""
        THEN createIssuedPayment(f, dest, loadReply, builderErr)
      ELSE IF assetCode = "" /\ assetIssuer = ""
        THEN createNativePayment(f, dest, loadReply, builderErr)
      ELSE Composed(Nil, Ptr("PaymentMissingParamAsset"), <<>>)

\* fmt.Sprintf("path[%d][asset_code]", i), fmt.Sprintf("path[%d][asset_issuer]", i)
CodeFieldName(i) == "path[" \o ToString(i) \o "][asset_code]"
IssuerFieldName(i) == "path[" \o ToString(i) \o "][asset_issuer]"

RECURSIVE DiscoverPathSkippingGaps(_, _)
\* a discovery that steps over a missing index instead of stopping at it
DiscoverPathSkippingGaps(f, i) ==
  IF \A j \in i..(MaxPathIndex + 1) : CodeFieldName(j) \notin DOMAIN f
    THEN <<>>
  ELSE IF CodeFieldName(i) \notin DOMAIN f
    THEN DiscoverPathSkippingGaps(f, i + 1)
    ELSE LET code == PostFormValue(f, CodeFieldName(i))
             issuer == PostFormValue(f, IssuerFieldName(i))
         IN  <<IF code = "" /\ issuer = ""
                 THEN NativeAsset
                 ELSE CreditAsset(code, issuer)>> \o DiscoverPathSkippingGaps(f, i + 1)

RECURSIVE DiscoverPath(_, _)
\* lines 264-283: the loop, from index i on
DiscoverPath(f, i) ==
  IF CodeFieldName(i) \notin DOMAIN f
    THEN <<>>
    ELSE LET code == PostFormValue(f, CodeFieldName(i))
             issuer == PostFormValue(f, IssuerFieldName(i))
         IN  <<IF code = "" /\ issuer = ""
                 THEN NativeAsset
                 ELSE CreditAsset(code, issuer)>> \o DiscoverPath(f, i + 1)

\* a path-payment composer that looks the destination up, as the native
\* payment does, and creates the account when the lookup fails
createPathPaymentOperationWithLookup(f, dest, builderErr) ==
  LET sendMax == PostFormValue(f, "send_max")
      sendAssetCode == PostFormValue(f, "send_asset_code")
      sendAssetIssuer == PostFormValue(f, "send_asset_issuer")
      destinationAmount == PostFormValue(f, "destination_amount")
      destinationAssetCode == PostFormValue(f, "destination_asset_code")
      destinationAssetIssuer == PostFormValue(f, "destination_asset_issuer")
      sendAsset == IF sendAssetCode # "" /\ sendAssetIssuer # ""
                     THEN CreditAsset(sendAssetCode, sendAssetIssuer)
                     ELSE NativeAsset
      lookup == Call("LoadAccount", dest.AccountId, [err |-> TRUE, cause |-> "not found"])
  IN  IF (sendAssetCode = "") # (sendAssetIssuer = "")
        THEN Composed(Nil, Ptr("PaymentMissingParamAsset"), <<>>)
      ELSE IF (destinationAssetCode = "") # (destinationAssetIssuer = "")
        THEN Composed(Nil, Ptr("PaymentMissingParamAsset"), <<>>)
      ELSE IF destinationAssetCode = ""
        THEN Composed(CreateAccountBuilder(dest.AccountId, destinationAmount, builderErr),
                      BuilderErrorResponse(builderErr), <<lookup>>)
      ELSE Composed(PathPaymentBuilder(dest.AccountId, sendAsset, sendMax,
                                       CreditAsset(destinationAssetCode,
                                                   destinationAssetIssuer),
                                       destinationAmount,
                                       DiscoverPath(f, 0), builderErr),
                    BuilderErrorResponse(builderErr), <<>>)

\* lines 231-305
createPathPaymentOperation(f, dest, builderErr) ==
  LET sendMax == PostFormValue(f, "send_max")
      sendAssetCode == PostFormValue(f, "send_asset_code")
      sendAssetIssuer == PostFormValue(f, "send_asset_issuer")
      destinationAmount == PostFormValue(f, "destination_amount")
      destinationAssetCode == PostFormValue(f, "destination_asset_code")
      destinationAssetIssuer == PostFormValue(f, "destination_asset_issuer")
      sendAsset == IF sendAssetCode # "" /\ sendAssetIssuer # ""
                     THEN CreditAsset(sendAssetCode, sendAssetIssuer)
                     ELSE NativeAsset
      destinationAsset == IF destinationAssetCode # "" /\ destinationAssetIssuer # ""
                            THEN CreditAsset(destinationAssetCode, destinationAssetIssuer)
                            ELSE NativeAsset
  IN  IF (sendAssetCode = "") # (sendAssetIssuer = "")
        THEN Composed(Nil, Ptr("PaymentMissingParamAsset"), <<>>)
      ELSE IF (destinationAssetCode = "") # (destinationAssetIssuer = "")
        THEN Composed(Nil, Ptr("PaymentMissingParamAsset"), <<>>)
      ELSE Composed(PathPaymentBuilder(dest.AccountId, sendAsset, sendMax,
                                       destinationAsset, destinationAmount,
                                       DiscoverPath(f, 0), builderErr),
                    BuilderErrorResponse(builderErr), <<>>)

\* the form fields createPaymentOperation reads
PaymentForms ==
  {("amount" :> a) @@ ("asset_code" :> c) @@ ("asset_issuer" :> i) :
     a \in Amounts, c \in AssetCodes, i \in AssetIssuers}

\* the path[i][..] fields of a form: legs maps the indexes that are present
PathLegs == {[code |-> c, issuer |-> i] : c \in {"", "EUR"}, i \in PathLegIssuers}
PathFields(legs) ==
  [n \in {CodeFieldName(i) : i \in DOMAIN legs} \cup
         {IssuerFieldName(i) : i \in DOMAIN legs} |->
     LET i == CHOOSE j \in DOMAIN legs : n \in {CodeFieldName(j), IssuerFieldName(j)}
     IN  IF n = CodeFieldName(i) THEN legs[i].code ELSE legs[i].issuer]
PathForms(maxIndex) ==
  UNION {{PathFields(legs) : legs \in [present -> PathLegs]} :
           present \in SUBSET (0..maxIndex)}

\* the form fields createPathPaymentOperation reads
PathPaymentFormsUpTo(maxIndex) ==
  {("send_max" :> "12") @@ ("send_asset_code" :> sc) @@ ("send_asset_issuer" :> si)
     @@ ("destination_amount" :> "10")
     @@ ("destination_asset_code" :> dc) @@ ("destination_asset_issuer" :> di) @@ pf :
     sc \in AssetCodes, si \in PathLegIssuers,
     dc \in AssetCodes, di \in PathLegIssuers, pf \in PathForms(maxIndex)}

PathPaymentForms == PathPaymentFormsUpTo(MaxHandlerPathIndex)
PathPaymentFormsWide == PathPaymentFormsUpTo(MaxPathIndex)

\* lines 41-61, common to the cases of the switch that call a composer
Compose(h, composed) ==
  /\ operationBuilder' = [operationBuilder EXCEPT ![h] = composed.operationBuilder]
  /\ IF composed.errorResponse # Nil
       THEN /\ Emit(h, composed.calls \o <<WriteError(composed.errorResponse.val)>>)
            /\ Goto(h, "done")
       ELSE /\ Emit(h, composed.calls)
            /\ Goto(h, "memo")

\* lines 44-46, 58: type is empty, no operation is built
NoOperation(h) ==
  /\ pc[h] = "dispatch"
  /\ Read(h, "type" :> "")
  /\ Goto(h, "memo")
  /\ UNCHANGED <<trace, sourceKeypair, destinationObject, operationBuilder,
                 memoMutator, sequenceNumber, tx, txeB64>>

\* lines 47-49, 58-61
PaymentOperation(h) ==
  /\ pc[h] = "dispatch"
  /\ \E f \in PaymentForms, reply \in LoadAccountReplies, builderErr \in BuilderErrors :
       /\ Read(h, ("type" :> "payment") @@ f)
       /\ Compose(h, createPaymentOperation(f, destinationObject[h], reply, builderErr))
  /\ UNCHANGED <<sourceKeypair, destinationObject, memoMutator, sequenceNumber,
                 tx, txeB64>>

\* lines 50-52, 58-61
ComposePathPayment(h, forms) ==
  /\ pc[h] = "dispatch"
  /\ \E f \in forms, builderErr \in BuilderErrors :
       /\ Read(h, ("type" :> "path_payment") @@ f)
       /\ Compose(h, createPathPaymentOperation(f, destinationObject[h], builderErr))
  /\ UNCHANGED <<sourceKeypair, destinationObject, memoMutator, sequenceNumber,
                 tx, txeB64>>

PathPaymentOperation(h) == ComposePathPayment(h, PathPaymentForms)
PathPaymentOperationWide(h) == ComposePathPayment(h, PathPaymentFormsWide)

\* an invalid type answered without the return of line 55
InvalidTypeNoReturn(h) ==
  /\ pc[h] = "dispatch"
  /\ \E paymentType \in PaymentTypes \ {"", "payment", "path_payment"} :
       Read(h, "type" :> paymentType)
  /\ Emit(h, <<WriteError("PaymentInvalidType")>>)
  /\ Goto(h, "memo")
  /\ UNCHANGED <<sourceKeypair, destinationObject, operationBuilder, memoMutator,
                 sequenceNumber, tx, txeB64>>

\* lines 53-55
InvalidType(h) ==
  /\ pc[h] = "dispatch"
  /\ \E paymentType \in PaymentTypes \ {"", "payment", "path_payment"} :
       Read(h, "type" :> paymentType)
  /\ Emit(h, <<WriteError("PaymentInvalidType")>>)
  /\ Goto(h, "done")
  /\ UNCHANGED <<sourceKeypair, destinationObject, operationBuilder, memoMutator,
                 sequenceNumber, tx, txeB64>>

\* what the memo stage returns
MemoFailed(code) == [outcome |-> "error", errorResponse |-> code, memoMutator |-> Nil]
MemoResolved(m) == [outcome |-> "ok", errorResponse |-> "", memoMutator |-> m]
MemoPanic == [outcome |-> "panic", errorResponse |-> "", memoMutator |-> Nil]

\* a switch on the memo type whose default case lets the memo through as text
memoMutatorOfLenient(memoType, memo) ==
  IF memoType = "" THEN MemoResolved(Nil)
  ELSE IF memoType = "id"
    THEN LET id == ParseUint(memo)
         IN  IF id.err
               THEN MemoFailed("PaymentInvalidMemo")
               ELSE MemoResolved([kind |-> "MemoID", Value |-> id.val])
  ELSE IF memoType = "hash"
    THEN LET memoBytes == HexDecodeString(memo)
         IN  IF memoBytes.err \/ Len(memoBytes.bytes) # HashLen
               THEN MemoFailed("PaymentInvalidMemo")
               ELSE MemoResolved([kind |-> "MemoHash",
                                  Value |-> SubSeq(memoBytes.bytes, 1, HashLen)])
  ELSE MemoResolved([kind |-> "MemoText", Value |-> memo])

\* a switch on the memo type that drops the error of strconv.ParseUint
memoMutatorOfIgnoringParseError(memoType, memo) ==
  IF memoType = "" THEN MemoResolved(Nil)
  ELSE IF memoType = "id"
    THEN MemoResolved([kind |-> "MemoID", Value |-> ParseUint(memo).val])
  ELSE IF memoType = "text" THEN MemoResolved([kind |-> "MemoText", Value |-> memo])
  ELSE IF memoType = "hash"
    THEN LET memoBytes == HexDecodeString(memo)
         IN  IF memoBytes.err \/ Len(memoBytes.bytes) # HashLen
               THEN MemoFailed("PaymentInvalidMemo")
               ELSE MemoResolved([kind |-> "MemoHash",
                                  Value |-> SubSeq(memoBytes.bytes, 1, HashLen)])
  ELSE MemoFailed("PaymentInvalidMemo")

\* lines 83-112: the switch on the memo type
memoMutatorOf(memoType, memo) ==
  IF memoType = "" THEN MemoResolved(Nil)
  ELSE IF memoType = "id"
    THEN LET id == ParseUint(memo)
         IN  IF id.err
               THEN MemoFailed("PaymentInvalidMemo")
               ELSE MemoResolved([kind |-> "MemoID", Value |-> id.val])
  ELSE IF memoType = "text" THEN MemoResolved([kind |-> "MemoText", Value |-> memo])
  ELSE IF memoType = "hash"
    THEN LET memoBytes == HexDecodeString(memo)
         IN  IF memoBytes.err \/ Len(memoBytes.bytes) # HashLen
               THEN MemoFailed("PaymentInvalidMemo")
               ELSE MemoResolved([kind |-> "MemoHash",
                                  Value |-> SubSeq(memoBytes.bytes, 1, HashLen)])
  ELSE MemoFailed("PaymentInvalidMemo")

\* a memo stage where the resolver's memo silently replaces the request's
resolveMemoResolverWins(memoType, memo, dest) ==
  IF ~((memoType = "" /\ memo = EmptyStr) \/ (memoType # "" /\ memo # EmptyStr))
    THEN MemoFailed("PaymentMissingParamMemo")
  ELSE IF dest.MemoType # Nil
    THEN IF dest.Memo = Nil
           THEN MemoPanic
           ELSE memoMutatorOf(dest.MemoType.val, dest.Memo.val)
  ELSE memoMutatorOf(memoType, memo)

\* lines 63-112.  memoType, memo: the form's memo_type and memo
resolveMemo(memoType, memo, dest) ==
  IF ~((memoType = "" /\ memo = EmptyStr) \/ (memoType # "" /\ memo # EmptyStr))
    THEN MemoFailed("PaymentMissingParamMemo")
  ELSE IF dest.MemoType # Nil
    THEN IF memoType # "" THEN MemoFailed("PaymentCannotUseMemo")
         \* line 80 dereferences destinationObject.Memo
         ELSE IF dest.Memo = Nil
           THEN MemoPanic
           ELSE memoMutatorOf(dest.MemoType.val, dest.Memo.val)
  ELSE memoMutatorOf(memoType, memo)

ResolveMemo(h) ==
  /\ pc[h] = "memo"
  /\ \E memoType \in MemoTypes, memo \in Memos :
       LET r == resolveMemo(memoType, memo, destinationObject[h])
       IN  /\ Read(h, ("memo_type" :> memoType) @@ ("memo" :> memo))
           /\ memoMutator' = [memoMutator EXCEPT ![h] = r.memoMutator]
           /\ IF r.outcome = "error"
                THEN Emit(h, <<WriteError(r.errorResponse)>>) /\ Goto(h, "done")
              ELSE IF r.outcome = "panic"
                THEN Goto(h, "panic") /\ UNCHANGED trace
              ELSE Goto(h, "loadSource") /\ UNCHANGED trace
  /\ UNCHANGED <<sourceKeypair, destinationObject, operationBuilder, sequenceNumber,
                 tx, txeB64>>

\* a load of the source account that drops the error of strconv.ParseUint
LoadSourceIgnoringParseError(h) ==
  /\ pc[h] = "loadSource"
  /\ \E accountResponse \in LoadAccountReplies :
       LET load == Call("LoadAccount", sourceKeypair[h].address, accountResponse)
       IN  IF accountResponse.err
             THEN /\ Emit(h, <<load, WriteError("PaymentSourceNotExist")>>)
                  /\ Goto(h, "done")
                  /\ UNCHANGED sequenceNumber
           ELSE /\ Emit(h, <<load>>)
                /\ sequenceNumber' =
                     [sequenceNumber EXCEPT
                        ![h] = ParseUint(accountResponse.SequenceNumber).val]
                /\ Goto(h, "build")
  /\ UNCHANGED <<form, sourceKeypair, destinationObject, operationBuilder, memoMutator,
                 tx, txeB64>>

\* lines 114-126
LoadSource(h) ==
  /\ pc[h] = "loadSource"
  /\ \E accountResponse \in LoadAccountReplies :
       LET load == Call("LoadAccount", sourceKeypair[h].address, accountResponse)
           parsed == ParseUint(accountResponse.SequenceNumber)
       IN  IF accountResponse.err
             THEN /\ Emit(h, <<load, WriteError("PaymentSourceNotExist")>>)
                  /\ Goto(h, "done")
                  /\ UNCHANGED sequenceNumber
           ELSE IF parsed.err
             THEN /\ Emit(h, <<load, WriteError("ServerError")>>)
                  /\ Goto(h, "done")
                  /\ UNCHANGED sequenceNumber
           ELSE /\ Emit(h, <<load>>)
                /\ sequenceNumber' = [sequenceNumber EXCEPT ![h] = parsed.val]
                /\ Goto(h, "build")
  /\ UNCHANGED <<form, sourceKeypair, destinationObject, operationBuilder, memoMutator,
                 tx, txeB64>>

\* lines 145-153: the error code for a failure of b.Transaction
TransactionErrorCode(err) ==
  IF err.text = AssetCodeLengthText THEN "PaymentMalformedAssetCode"
  ELSE IF StringsContains(err.text, CannotParseAmountText) THEN "PaymentInvalidAmount"
  ELSE "ServerError"

\* lines 128-155
BuildTransaction(h) ==
  /\ pc[h] = "build"
  /\ IF operationBuilder[h] = Nil
       \* line 132: operationBuilder.(b.TransactionMutator) on a nil interface
       THEN Goto(h, "panic") /\ UNCHANGED <<tx, trace>>
       ELSE \E err \in BuilderErrors :
              /\ tx' = [tx EXCEPT ![h] =
                          [SourceAccount |-> form[h]["source"],
                           Sequence |-> Uint64AddOne(sequenceNumber[h]),
                           Network |-> NetworkPassphrase,
                           Operation |-> operationBuilder[h],
                           Memo |-> memoMutator[h],
                           Err |-> err]]
              /\ IF err # Nil
                   THEN Emit(h, <<WriteError(TransactionErrorCode(err))>>) /\ Goto(h, "done")
                   ELSE Goto(h, "sign") /\ UNCHANGED trace
  /\ UNCHANGED <<form, sourceKeypair, destinationObject, operationBuilder, memoMutator,
                 sequenceNumber, txeB64>>

\* lines 157-164: tx.Sign(source) and txe.Base64()
SignTransaction(h) ==
  /\ pc[h] = "sign"
  /\ \E failed \in BOOLEAN :
       IF failed
         THEN /\ Emit(h, <<WriteError("ServerError")>>)
              /\ Goto(h, "done")
              /\ UNCHANGED txeB64
         ELSE /\ txeB64' = [txeB64 EXCEPT ![h] =
                              [signer |-> form[h]["source"], tx |-> tx[h]]]
              /\ Goto(h, "submit")
              /\ UNCHANGED trace
  /\ UNCHANGED <<form, sourceKeypair, destinationObject, operationBuilder, memoMutator,
                 sequenceNumber, tx>>

\* a submission whose error check is inverted
SubmitTransactionInverted(h) ==
  /\ pc[h] = "submit"
  /\ \E reply \in SubmitReplies :
       LET submit == Call("SubmitTransaction", txeB64[h], reply)
       IN  IF ~reply.err
             THEN Emit(h, <<submit, WriteError("ServerError")>>)
             ELSE Emit(h, <<submit, Write(reply.response)>>)
  /\ Goto(h, "done")
  /\ UNCHANGED <<form, sourceKeypair, destinationObject, operationBuilder, memoMutator,
                 sequenceNumber, tx, txeB64>>

\* a submission that waits while an earlier execution for the same source
\* account is between its load and its submission
SubmitTransactionSerialized(h) ==
  /\ pc[h] = "submit"
  /\ \A g \in Handlers :
       (g < h /\ sourceKeypair[g] = sourceKeypair[h])
         => pc[g] \notin {"build", "sign", "submit"}
  /\ \E reply \in SubmitReplies :
       LET submit == Call("SubmitTransaction", txeB64[h], reply)
       IN  IF reply.err
             THEN Emit(h, <<submit, WriteError("ServerError")>>)
             ELSE Emit(h, <<submit, Write(reply.response)>>)
  /\ Goto(h, "done")
  /\ UNCHANGED <<form, sourceKeypair, destinationObject, operationBuilder, memoMutator,
                 sequenceNumber, tx, txeB64>>

\* a submission that sends the same envelope once more after a failure
SubmitTransactionRetrying(h) ==
  /\ pc[h] = "submit"
  /\ \E reply \in SubmitReplies, second \in SubmitReplies :
       LET submit == Call("SubmitTransaction", txeB64[h], reply)
           retry == Call("SubmitTransaction", txeB64[h], second)
       IN  IF reply.err
             THEN IF second.err
                    THEN Emit(h, <<submit, retry, WriteError("ServerError")>>)
                    ELSE Emit(h, <<submit, retry, Write(second.response)>>)
             ELSE Emit(h, <<submit, Write(reply.response)>>)
  /\ Goto(h, "done")
  /\ UNCHANGED <<form, sourceKeypair, destinationObject, operationBuilder, memoMutator,
                 sequenceNumber, tx, txeB64>>

\* lines 166-173
SubmitTransaction(h) ==
  /\ pc[h] = "submit"
  /\ \E reply \in SubmitReplies :
       LET submit == Call("SubmitTransaction", txeB64[h], reply)
       IN  IF reply.err
             THEN Emit(h, <<submit, WriteError("ServerError")>>)
             ELSE Emit(h, <<submit, Write(reply.response)>>)
  /\ Goto(h, "done")
  /\ UNCHANGED <<form, sourceKeypair, destinationObject, operationBuilder, memoMutator,
                 sequenceNumber, tx, txeB64>>

Next ==
  \E h \in Handlers :
    \/ ParseSource(h)
    \/ Resolve(h)
    \/ NoOperation(h)
    \/ PaymentOperation(h)
    \/ PathPaymentOperation(h)
    \/ InvalidType(h)
    \/ ResolveMemo(h)
    \/ LoadSource(h)
    \/ BuildTransaction(h)
    \/ SignTransaction(h)
    \/ SubmitTransaction(h)

Spec == Init /\ [][Next]_vars

\* the composers alone, on forms with more path fields
NextCompose ==
  \E h \in Handlers :
    \/ ParseSource(h)
    \/ Resolve(h)
    \/ NoOperation(h)
    \/ PaymentOperation(h)
    \/ PathPaymentOperationWide(h)
    \/ InvalidType(h)

SpecCompose == Init /\ [][NextCompose]_vars

\* two executions of Payment under way at once: net/http serves each request
\* on its own goroutine, and the handler shares no variable between them
ConcurrentHandlers == {1, 2}

InitConcurrent ==
  /\ pc = [h \in Handlers |-> IF h \in ConcurrentHandlers THEN "start" ELSE "idle"]
  /\ form = [h \in Handlers |-> <<>>]
  /\ trace = [h \in Handlers |-> <<>>]
  /\ sourceKeypair = [h \in Handlers |-> Nil]
  /\ destinationObject = [h \in Handlers |-> Nil]
  /\ operationBuilder = [h \in Handlers |-> Nil]
  /\ memoMutator = [h \in Handlers |-> Nil]
  /\ sequenceNumber = [h \in Handlers |-> Nil]
  /\ tx = [h \in Handlers |-> Nil]
  /\ txeB64 = [h \in Handlers |-> Nil]

\* the form fields a concurrent request may carry besides its type
ConcurrentFormFields ==
  {"source", "destination", "type", "amount", "asset_code", "asset_issuer",
   "send_max", "send_asset_code", "send_asset_issuer", "destination_amount",
   "destination_asset_code", "destination_asset_issuer", "memo_type", "memo"}

\* the requests and replies of the concurrent executions: every request is
\* from the same source and without memo or path, of any type; the resolver
\* answers with an account and no memo, the builders accept, the source
\* account loads with one of two sequence numbers; signing and submission
\* succeed or fail
ConcurrentRequest(h) ==
  /\ \A f \in DOMAIN form[h] :
       /\ f \in ConcurrentFormFields
       /\ f = "source" => form[h][f] = "SSOURCE"
       /\ f \in {"asset_code", "send_asset_code"} => form[h][f] = "USD"
       /\ f \in {"asset_issuer", "send_asset_issuer"} => form[h][f] = "GISSUER"
       /\ f \in {"destination_asset_code", "destination_asset_issuer"} => form[h][f] = ""
       /\ f = "memo_type" => form[h][f] = ""
       /\ f = "memo" => form[h][f] = EmptyStr
  /\ \A i \in 1..Len(trace[h]) :
       /\ trace[h][i].ev = "Resolve" =>
            trace[h][i].reply =
              [err |-> FALSE,
               dest |-> [AccountId |-> "GDEST", MemoType |-> Nil, Memo |-> Nil]]
       /\ trace[h][i].ev = "LoadAccount" =>
            /\ ~trace[h][i].reply.err
            /\ trace[h][i].reply.SequenceNumber \in {<<"4", "1">>, MaxUint64Str}
  /\ operationBuilder[h] # Nil => operationBuilder[h].Err = Nil
  /\ tx[h] # Nil => tx[h].Err = Nil

ConcurrentRequests == \A h \in ConcurrentHandlers : ConcurrentRequest(h)

\* the steps of the handler, interleaved between the executions
NextConcurrent ==
  \E h \in Handlers :
    \/ ParseSource(h) /\ ConcurrentRequests'
    \/ Resolve(h) /\ ConcurrentRequests'
    \/ NoOperation(h) /\ ConcurrentRequests'
    \/ PaymentOperation(h) /\ ConcurrentRequests'
    \/ PathPaymentOperation(h) /\ ConcurrentRequests'
    \/ InvalidType(h) /\ ConcurrentRequests'
    \/ ResolveMemo(h) /\ ConcurrentRequests'
    \/ LoadSource(h) /\ ConcurrentRequests'
    \/ BuildTransaction(h) /\ ConcurrentRequests'
    \/ SignTransaction(h) /\ ConcurrentRequests'
    \/ SubmitTransaction(h) /\ ConcurrentRequests'

SpecConcurrent == InitConcurrent /\ [][NextConcurrent]_vars

(***************************************************************************)
(* Vocabulary of the properties                                            *)
(***************************************************************************)
Terminated(h) == pc[h] \in {"done", "panic"}
\* the calls of one collaborator operation, in order
Calls(h, name) == SelectSeq(trace[h], LAMBDA e : e.ev = name)
\* the responses written, in order
Responses(h) == SelectSeq(trace[h], LAMBDA e : e.ev \in {"writeError", "write"})
\* the form field was read with that value
FieldIs(h, name, value) == name \in DOMAIN form[h] /\ form[h][name] = value
\* line 63 was reached: every earlier stage passed
ReachedMemo(h) == "memo_type" \in DOMAIN form[h]
\* exactly one of code and issuer is empty
HalfSpecified(code, issuer) == (code = "") # (issuer = "")
NativePaymentRequest(h) ==
  /\ FieldIs(h, "type", "payment")
  /\ FieldIs(h, "asset_code", "")
  /\ FieldIs(h, "asset_issuer", "")

(***************************************************************************)
(* C1: for a type="payment" request with asset_code and asset_issuer both  *)
(* empty, the composer looks the destination up once and the operation is  *)
(* CreateAccount exactly when that lookup returned an error, Payment       *)
(* exactly when it succeeded.                                              *)
(***************************************************************************)
C1_NativeOperationFollowsLookup ==
  \A h \in Handlers :
    NativePaymentRequest(h) =>
      LET lookups == Calls(h, "LoadAccount")
      IN  /\ Len(lookups) >= 1
          /\ lookups[1].arg = destinationObject[h].AccountId
          /\ operationBuilder[h] # Nil
          /\ lookups[1].reply.err => operationBuilder[h].kind = "CreateAccount"
          /\ ~lookups[1].reply.err => operationBuilder[h].kind = "Payment"

\* a native payment whose destination lookup failed for a reason other than
\* "not found" was submitted as CreateAccount
C1_Witness ==
  \E h \in Handlers :
    /\ NativePaymentRequest(h)
    /\ Calls(h, "LoadAccount")[1].reply.err
    /\ Calls(h, "LoadAccount")[1].reply.cause = "connection refused"
    /\ operationBuilder[h].kind = "CreateAccount"
    /\ Len(Calls(h, "SubmitTransaction")) = 1

(***************************************************************************)
(* C2 as stated: whenever the resolved destination carries a memo type and *)
(* the request carries memo_type and/or memo, the response is              *)
(* CannotUseMemo.                                                          *)
(***************************************************************************)
C2_AnyRequestMemoYieldsCannotUseMemo ==
  \A h \in Handlers :
    ( /\ Terminated(h)
      /\ ReachedMemo(h)
      /\ destinationObject[h].MemoType # Nil
      /\ (form[h]["memo_type"] # "" \/ form[h]["memo"] # EmptyStr) )
    => Responses(h) = <<WriteError("PaymentCannotUseMemo")>>

(***************************************************************************)
(* C2 amended: when the request has passed source validation, destination  *)
(* resolution and validation, type dispatch and operation composition, and *)
(* memo_type and memo are both non-empty, a resolved destination carrying  *)
(* a memo type makes the response CannotUseMemo, the only response.        *)
(***************************************************************************)
C2_BothMemosYieldCannotUseMemo ==
  \A h \in Handlers :
    ( /\ ReachedMemo(h)
      /\ destinationObject[h].MemoType # Nil
      /\ form[h]["memo_type"] # ""
      /\ form[h]["memo"] # EmptyStr )
    => /\ pc[h] = "done"
       /\ Responses(h) = <<WriteError("PaymentCannotUseMemo")>>
       /\ trace[h][Len(trace[h])].ev = "writeError"

C2_Witness ==
  \E h \in Handlers :
    /\ ReachedMemo(h)
    /\ destinationObject[h].MemoType = Ptr("id")
    /\ destinationObject[h].Memo = Ptr(<<"7">>)
    /\ form[h]["memo_type"] = "text"
    /\ form[h]["memo"] = <<"7">>
    /\ Responses(h) = <<WriteError("PaymentCannotUseMemo")>>

(***************************************************************************)
(* C3: a half-specified asset (code without issuer, or issuer without      *)
(* code) - the payment asset, the path-payment send asset, destination     *)
(* asset or any discovered path leg - yields MissingParamAsset and no      *)
(* operation is built.                                                     *)
(***************************************************************************)
LegDiscovered(h, i) == \A j \in 0..i : CodeFieldName(j) \in DOMAIN form[h]
HasHalfSpecifiedAsset(h) ==
  \/ /\ FieldIs(h, "type", "payment")
     /\ HalfSpecified(form[h]["asset_code"], form[h]["asset_issuer"])
  \/ /\ FieldIs(h, "type", "path_payment")
     /\ \/ HalfSpecified(form[h]["send_asset_code"], form[h]["send_asset_issuer"])
        \/ HalfSpecified(form[h]["destination_asset_code"],
                         form[h]["destination_asset_issuer"])
        \/ \E i \in 0..MaxPathIndex :
             /\ LegDiscovered(h, i)
             /\ HalfSpecified(form[h][CodeFieldName(i)],
                              PostFormValue(form[h], IssuerFieldName(i)))

C3_HalfSpecifiedAssetRejected ==
  \A h \in Handlers :
    HasHalfSpecifiedAsset(h) =>
      /\ Responses(h) = <<WriteError("PaymentMissingParamAsset")>>
      /\ operationBuilder[h] = Nil

(***************************************************************************)
(* C4: fail-fast.  An error response is the last thing an execution does:  *)
(* no collaborator call and no second response follows it, and the         *)
(* execution has ended.                                                    *)
(***************************************************************************)
C4_NothingAfterError ==
  \A h \in Handlers :
    /\ Len(Responses(h)) <= 1
    /\ \A i \in 1..Len(trace[h]) :
         trace[h][i].ev = "writeError" => (i = Len(trace[h]) /\ pc[h] = "done")

\* an error written after collaborators were called: the source does not exist
C4_Witness ==
  \E h \in Handlers :
    /\ pc[h] = "done"
    /\ Len(Calls(h, "Resolve")) = 1
    /\ Len(Calls(h, "LoadAccount")) = 2
    /\ Responses(h) = <<WriteError("PaymentSourceNotExist")>>

(***************************************************************************)
(* C5: a request with an empty type that passes source, destination and    *)
(* memo validation and whose source account loads ends with a ServerError  *)
(* response, and nothing is submitted.                                     *)
(***************************************************************************)
SourceLoaded(h) ==
  \E i \in 1..Len(trace[h]) :
    /\ trace[h][i].ev = "LoadAccount"
    /\ trace[h][i].arg = sourceKeypair[h].address
    /\ ~trace[h][i].reply.err
    /\ ~ParseUint(trace[h][i].reply.SequenceNumber).err

C5_EmptyTypeEndsServerError ==
  \A h \in Handlers :
    (Terminated(h) /\ FieldIs(h, "type", "") /\ SourceLoaded(h)) =>
      /\ Responses(h) = <<WriteError("ServerError")>>
      /\ Calls(h, "SubmitTransaction") = <<>>

(***************************************************************************)
(* C6: a failure the builder reports, when the operation is composed or    *)
(* when the transaction is built, is answered by its message: the          *)
(* asset-code-length message with MalformedAssetCode, the                  *)
(* cannot-parse-amount message with InvalidAmount, any other with          *)
(* ServerError.                                                            *)
(***************************************************************************)
C6_BuilderFailureClassified ==
  \A h \in Handlers :
    /\ (operationBuilder[h] # Nil /\ operationBuilder[h].Err # Nil) =>
         Responses(h) = <<WriteError(TransactionErrorCode(operationBuilder[h].Err))>>
    /\ (tx[h] # Nil /\ tx[h].Err # Nil) =>
         Responses(h) = <<WriteError(TransactionErrorCode(tx[h].Err))>>

(***************************************************************************)
(* C7: the assembled transaction carries the loaded sequence number N plus *)
(* one, as an integer, for every unsigned 64-bit N.                        *)
(***************************************************************************)
\* x + 1 as an integer of one more limb: nothing is dropped
Successor(x) == LET r == MulAddLimbs(x, 1, 1) IN r.limbs \o <<r.carry>>

C7_SequenceIsLoadedPlusOne ==
  \A h \in Handlers :
    tx[h] # Nil => tx[h].Sequence \o <<0>> = Successor(sequenceNumber[h])

(***************************************************************************)
(* C8 as stated: an execution calls Horizon.LoadAccount at most once and   *)
(* Horizon.SubmitTransaction at most once.                                 *)
(***************************************************************************)
C8_AtMostOneLoadAndOneSubmit ==
  \A h \in Handlers :
    /\ Len(Calls(h, "LoadAccount")) <= 1
    /\ Len(Calls(h, "SubmitTransaction")) <= 1

(***************************************************************************)
(* C8 amended: an execution calls Horizon.SubmitTransaction at most once   *)
(* and Horizon.LoadAccount at most twice: at most once on the source, and  *)
(* before it once on the destination only when type="payment" with         *)
(* asset_code and asset_issuer both empty.  A payment of an issued asset   *)
(* and a path payment call LoadAccount at most once, on the source.        *)
(***************************************************************************)
C8_LoadsAndSubmitsBounded ==
  \A h \in Handlers :
    LET loads == Calls(h, "LoadAccount")
    IN  /\ Len(Calls(h, "SubmitTransaction")) <= 1
        /\ Len(loads) <= 2
        /\ NativePaymentRequest(h) =>
             /\ Len(loads) >= 1
             /\ loads[1].arg = destinationObject[h].AccountId
             /\ Len(loads) = 2 => loads[2].arg = sourceKeypair[h].address
        /\ ~NativePaymentRequest(h) =>
             /\ Len(loads) <= 1
             /\ Len(loads) = 1 => loads[1].arg = sourceKeypair[h].address

\* a native payment that looked the destination up, loaded the source and submitted
C8_Witness ==
  \E h \in Handlers :
    /\ NativePaymentRequest(h)
    /\ Len(Calls(h, "LoadAccount")) = 2
    /\ Len(Calls(h, "SubmitTransaction")) = 1

(***************************************************************************)
(* C9: the path of a composed path payment is exactly the legs             *)
(* path[0..k-1] in index order, k the smallest index whose                 *)
(* path[k][asset_code] field is absent from the form.                      *)
(***************************************************************************)
FirstGap(f) ==
  CHOOSE k \in 0..(MaxPathIndex + 1) :
    /\ CodeFieldName(k) \notin DOMAIN f
    /\ \A j \in 0..(k - 1) : CodeFieldName(j) \in DOMAIN f
LegOf(f, i) ==
  IF f[CodeFieldName(i)] = "" /\ PostFormValue(f, IssuerFieldName(i)) = ""
    THEN NativeAsset
    ELSE CreditAsset(f[CodeFieldName(i)], PostFormValue(f, IssuerFieldName(i)))

C9_PathStopsAtFirstGap ==
  \A h \in Handlers :
    (FieldIs(h, "type", "path_payment") /\ operationBuilder[h] # Nil) =>
      LET k == FirstGap(form[h])
          path == operationBuilder[h].Path
      IN  /\ Len(path) = k
          /\ \A i \in 0..(k - 1) : path[i + 1] = LegOf(form[h], i)

\* path[0], path[1] and path[3] present, path[2] absent: a path of two legs
C9_Witness ==
  \E h \in Handlers :
    /\ FieldIs(h, "type", "path_payment")
    /\ operationBuilder[h] # Nil
    /\ {i \in 0..MaxPathIndex : CodeFieldName(i) \in DOMAIN form[h]} = {0, 1, 3}
    /\ Len(operationBuilder[h].Path) = 2

(***************************************************************************)
(* C10: a failed Horizon.SubmitTransaction is answered with ServerError, a *)
(* successful one with exactly the response it returned; and a success     *)
(* response is written only right after a SubmitTransaction call that      *)
(* returned no error.                                                      *)
(***************************************************************************)
C10_SubmissionOutcomeWritten ==
  \A h \in Handlers :
    \A i \in 1..Len(trace[h]) :
      /\ trace[h][i].ev = "SubmitTransaction" =>
           /\ i < Len(trace[h])
           /\ trace[h][i + 1] = IF trace[h][i].reply.err
                                  THEN WriteError("ServerError")
                                  ELSE Write(trace[h][i].reply.response)
      /\ trace[h][i].ev = "write" =>
           /\ i > 1
           /\ trace[h][i - 1].ev = "SubmitTransaction"
           /\ ~trace[h][i - 1].reply.err
           /\ trace[h][i].arg = trace[h][i - 1].reply.response

\* a successful submission whose response was written
C10_Witness ==
  \E h \in Handlers :
    /\ pc[h] = "done"
    /\ Len(Calls(h, "SubmitTransaction")) = 1
    /\ ~Calls(h, "SubmitTransaction")[1].reply.err
    /\ Responses(h) = <<Write("tx-hash-2")>>

(***************************************************************************)
(* C11: the resolver is not trusted.  When AddressResolver.Resolve         *)
(* succeeds with an account id that is no valid key the response is        *)
(* InvalidDestination and nothing else happens: no operation is composed,  *)
(* no LoadAccount call and no submission is made.  So every account id     *)
(* given to LoadAccount or put into an operation is a valid key.           *)
(***************************************************************************)
C11_InvalidResolvedAccountRejected ==
  \A h \in Handlers :
    /\ \A i \in 1..Len(trace[h]) :
         ( /\ trace[h][i].ev = "Resolve"
           /\ ~trace[h][i].reply.err
           /\ KeypairParse(trace[h][i].reply.dest.AccountId).err )
         => /\ pc[h] = "done"
            /\ Responses(h) = <<WriteError("PaymentInvalidDestination")>>
            /\ operationBuilder[h] = Nil
            /\ Calls(h, "LoadAccount") = <<>>
            /\ Calls(h, "SubmitTransaction") = <<>>
    /\ \A i \in 1..Len(trace[h]) :
         trace[h][i].ev = "LoadAccount" => ~KeypairParse(trace[h][i].arg).err
    /\ operationBuilder[h] # Nil => ~KeypairParse(operationBuilder[h].Destination).err

\* the resolver answered with an account id that is no key
C11_Witness ==
  \E h \in Handlers :
    /\ Len(Calls(h, "Resolve")) = 1
    /\ ~Calls(h, "Resolve")[1].reply.err
    /\ Calls(h, "Resolve")[1].reply.dest.AccountId = "not-a-key"
    /\ Responses(h) = <<WriteError("PaymentInvalidDestination")>>

(***************************************************************************)
(* C12: a request whose memo fields are invalid on their own is rejected,  *)
(* and where in the pipeline that happens.                                 *)
(***************************************************************************)
\* the memo values of the input set that are decimal uint64 numbers
NumericMemos == {<<"7">>, <<"0", "7">>, MaxUint64Str}
\* the memo values of the input set that hex-decode to 32 bytes
Hash32Memos == {HashHex}
MemoKinds == {"id", "text", "hash"}
JointlyEmptyOrNot(memoType, memo) == (memoType = "") <=> (memo = EmptyStr)
\* the request's memo fields, read at line 63, are invalid on their own
InvalidOwnMemo(h) ==
  /\ ReachedMemo(h)
  /\ LET memoType == form[h]["memo_type"]
         memo == form[h]["memo"]
     IN  \/ ~JointlyEmptyOrNot(memoType, memo)
         \/ memoType # "" /\ memoType \notin MemoKinds
         \/ memoType = "id" /\ memo \notin NumericMemos
         \/ memoType = "hash" /\ memo \notin Hash32Memos
CollaboratorCalls(h) ==
  SelectSeq(trace[h], LAMBDA e : e.ev \in {"Resolve", "LoadAccount", "SubmitTransaction"})

LoadedSequenceNumber(h) ==
  Calls(h, "LoadAccount")[Len(Calls(h, "LoadAccount"))].reply.SequenceNumber
\* both executions are for the same source account and loaded the same
\* sequence number
SameSourceSameSequence(g, h) ==
  /\ sourceKeypair[g] # Nil /\ sourceKeypair[g] = sourceKeypair[h]
  /\ Calls(g, "LoadAccount") # <<>> /\ Calls(h, "LoadAccount") # <<>>
  /\ LoadedSequenceNumber(g) = LoadedSequenceNumber(h)

\* C13: while another execution for the same source account is anywhere in
\* its pipeline, an execution that is about to load the source account can
\* load it and one that is about to submit can submit (nothing in the
\* handler waits for, or looks at, the other execution); and two executions
\* that loaded the same sequence number N build transactions with the same
\* sequence number, 42 when N is 41.
C13_ConcurrentSubmissionsNotSerialized ==
  \A g \in ConcurrentHandlers : \A h \in ConcurrentHandlers \ {g} :
    /\ pc[h] = "loadSource" => ENABLED LoadSource(h)
    /\ pc[h] = "submit" => ENABLED SubmitTransaction(h)
    /\ (SameSourceSameSequence(g, h) /\ tx[g] # Nil /\ tx[h] # Nil) =>
         /\ tx[g].Sequence = tx[h].Sequence
         /\ LoadedSequenceNumber(g) = <<"4", "1">> => tx[g].Sequence = <<42, 0, 0, 0>>

\* both executions loaded sequence number 41 for the same source account
\* and neither has submitted yet: both hold an envelope with sequence 42
C13_Witness ==
  /\ pc[1] = "submit" /\ pc[2] = "submit"
  /\ SameSourceSameSequence(1, 2)
  /\ LoadedSequenceNumber(1) = <<"4", "1">>
  /\ Calls(1, "SubmitTransaction") = <<>> /\ Calls(2, "SubmitTransaction") = <<>>
  /\ txeB64[1].tx.Sequence = <<42, 0, 0, 0>>
  /\ txeB64[2].tx.Sequence = <<42, 0, 0, 0>>

(***************************************************************************)
(* C14: the id memo and the unsupported memo kinds.                        *)
(***************************************************************************)
\* x \div 10 and x % 10 of a four-limb number, from the top limb down
DivideByTen(x) ==
  LET q4 == x[4] \div 10
      c3 == (x[4] % 10) * LimbBase + x[3]
      c2 == (c3 % 10) * LimbBase + x[2]
      c1 == (c2 % 10) * LimbBase + x[1]
  IN  [quot |-> <<c1 \div 10, c2 \div 10, c3 \div 10, q4>>, rem |-> c1 % 10]
RECURSIVE DecimalOf(_)
DecimalOf(x) ==
  IF x = Uint64Zero THEN <<>>
  ELSE DecimalOf(DivideByTen(x).quot) \o <<DecimalDigits[DivideByTen(x).rem + 1]>>
\* the decimal numeral of a four-limb number, as strconv.FormatUint writes it
FormatUint(x) == IF x = Uint64Zero THEN <<"0">> ELSE DecimalOf(x)

RECURSIVE WithoutLeadingZeros(_)
\* the numeral without its leading zeros: the number is the same
WithoutLeadingZeros(s) ==
  IF Len(s) > 1 /\ s[1] = "0" THEN WithoutLeadingZeros(Tail(s)) ELSE s

MemoErrors ==
  {WriteError("PaymentMissingParamMemo"), WriteError("PaymentCannotUseMemo"),
   WriteError("PaymentInvalidMemo")}
NoMemoError(h) ==
  \A i \in 1..Len(trace[h]) : trace[h][i].ev = "writeError" => trace[h][i] \notin MemoErrors
RespondedOnly(h, code) == pc[h] = "done" /\ Responses(h) = <<WriteError(code)>>

\* C14 as stated: memo_type="id" with a memo that is no uint64 numeral
\* yields InvalidMemo; with a uint64 numeral it produces an Id memo of that
\* value; a kind other than id, text or hash, from the request or from the
\* resolver, yields InvalidMemo.
C14_IdMemoAsStated ==
  \A h \in Handlers :
    ReachedMemo(h) =>
      LET memoType == form[h]["memo_type"]
          memo == form[h]["memo"]
          dest == destinationObject[h]
      IN  /\ (memoType = "id" /\ memo \notin NumericMemos) =>
               RespondedOnly(h, "PaymentInvalidMemo")
          /\ (memoType = "id" /\ memo \in NumericMemos) =>
               /\ memoMutator[h] # Nil
               /\ memoMutator[h].kind = "MemoID"
               /\ FormatUint(memoMutator[h].Value) = WithoutLeadingZeros(memo)
          /\ (memoType # "" /\ memoType \notin MemoKinds) =>
               RespondedOnly(h, "PaymentInvalidMemo")
          /\ (dest.MemoType # Nil /\ dest.MemoType.val \notin MemoKinds) =>
               RespondedOnly(h, "PaymentInvalidMemo")

\* C14 amended.  For a request that reaches the memo stage:
\*  - memo_type="id" with a memo that is no uint64 numeral is rejected:
\*    MissingParamMemo when the memo is empty, else CannotUseMemo when the
\*    resolver result carries a memo type, else InvalidMemo;
\*  - memo_type="id" with a uint64 numeral, the resolver result carrying no
\*    memo type, gives an Id memo holding exactly that number (written in
\*    decimal it is the memo field without its leading zeros), and that memo
\*    is the one of the transaction built;
\*  - a kind other than id, text or hash in the request, with a non-empty
\*    memo and no resolver memo type, yields InvalidMemo;
\*  - such a kind in the resolver result, the request carrying no memo,
\*    yields InvalidMemo when the resolver result has a memo value, and
\*    ends the execution without a response when it has none (line 80);
\*  - the resolver's kind id with its memo value gives an Id memo of that
\*    value.
C14_MemoKindDispatch ==
  \A h \in Handlers :
    ReachedMemo(h) =>
      LET memoType == form[h]["memo_type"]
          memo == form[h]["memo"]
          dest == destinationObject[h]
      IN  /\ (memoType = "id" /\ memo \notin NumericMemos) =>
               RespondedOnly(h,
                 IF memo = EmptyStr THEN "PaymentMissingParamMemo"
                 ELSE IF dest.MemoType # Nil THEN "PaymentCannotUseMemo"
                 ELSE "PaymentInvalidMemo")
          /\ (memoType = "id" /\ memo \in NumericMemos /\ dest.MemoType = Nil) =>
               /\ memoMutator[h] # Nil
               /\ memoMutator[h].kind = "MemoID"
               /\ FormatUint(memoMutator[h].Value) = WithoutLeadingZeros(memo)
               /\ NoMemoError(h)
               /\ tx[h] # Nil => tx[h].Memo = memoMutator[h]
          /\ (memoType # "" /\ memoType \notin MemoKinds
                /\ memo # EmptyStr /\ dest.MemoType = Nil) =>
               RespondedOnly(h, "PaymentInvalidMemo")
          /\ (memoType = "" /\ memo = EmptyStr
                /\ dest.MemoType # Nil /\ dest.MemoType.val \notin MemoKinds) =>
               IF dest.Memo = Nil
                 THEN pc[h] = "panic" /\ Responses(h) = <<>>
                 ELSE RespondedOnly(h, "PaymentInvalidMemo")
          /\ (memoType = "" /\ memo = EmptyStr
                /\ dest.MemoType = Ptr("id") /\ dest.Memo # Nil) =>
               /\ memoMutator[h] # Nil
               /\ memoMutator[h].kind = "MemoID"
               /\ FormatUint(memoMutator[h].Value) = dest.Memo.val
               /\ NoMemoError(h)

\* the largest uint64 as an id memo, in the transaction built
C14_Witness ==
  \E h \in Handlers :
    /\ FieldIs(h, "memo_type", "id")
    /\ FieldIs(h, "memo", MaxUint64Str)
    /\ tx[h] # Nil
    /\ tx[h].Memo = [kind |-> "MemoID", Value |-> Uint64Max]

(***************************************************************************)
(* C15: for every request with type="path_payment" the composer makes no   *)
(* Horizon.LoadAccount call: before the memo stage there is none, the only *)
(* one of the execution is the load of the source account, and the         *)
(* operation composed is a PathPayment.                                    *)
(***************************************************************************)
C15_PathPaymentMakesNoLookup ==
  \A h \in Handlers :
    FieldIs(h, "type", "path_payment") =>
      /\ Len(Calls(h, "LoadAccount")) <= 1
      /\ \A i \in 1..Len(trace[h]) :
           trace[h][i].ev = "LoadAccount" =>
             /\ trace[h][i].arg = sourceKeypair[h].address
             /\ trace[h][i].arg # destinationObject[h].AccountId
             /\ ReachedMemo(h)
             /\ pc[h] \notin {"memo", "loadSource"}
      /\ pc[h] \in {"memo", "loadSource"} => Calls(h, "LoadAccount") = <<>>
      /\ operationBuilder[h] # Nil => operationBuilder[h].kind = "PathPayment"
      /\ (pc[h] # "done" \/ ReachedMemo(h)) => operationBuilder[h] # Nil

\* a path payment to a native destination asset, its source account loaded
C15_Witness ==
  \E h \in Handlers :
    /\ FieldIs(h, "type", "path_payment")
    /\ FieldIs(h, "destination_asset_code", "")
    /\ operationBuilder[h] # Nil
    /\ operationBuilder[h].kind = "PathPayment"
    /\ operationBuilder[h].DestAsset = NativeAsset
    /\ Len(Calls(h, "LoadAccount")) = 1
    /\ tx[h] # Nil

(***************************************************************************)
(* C16: if loading the source account fails the response is                *)
(* SourceNotExist, and if the sequence number returned does not parse as   *)
(* an unsigned 64-bit integer the response is ServerError; in both cases   *)
(* no transaction is built, signed or submitted.                           *)
(***************************************************************************)
\* the sequence number strings of the input set that are uint64 numerals
NumericSequenceNumbers == {<<"4", "1">>, MaxUint64Str}
\* the loads of the source account (line 114): a native payment's first
\* LoadAccount is the destination's (line 206)
SourceLoads(h) ==
  IF ~ReachedMemo(h) THEN <<>>
  ELSE IF NativePaymentRequest(h)
    THEN Tail(Calls(h, "LoadAccount"))
    ELSE Calls(h, "LoadAccount")
NothingBuilt(h) ==
  /\ tx[h] = Nil
  /\ txeB64[h] = Nil
  /\ Calls(h, "SubmitTransaction") = <<>>

C16_SourceLoadFailures ==
  \A h \in Handlers :
    SourceLoads(h) # <<>> =>
      LET accountResponse == SourceLoads(h)[1].reply
      IN  /\ Len(SourceLoads(h)) = 1
          /\ SourceLoads(h)[1].arg = sourceKeypair[h].address
          /\ accountResponse.err =>
               /\ RespondedOnly(h, "PaymentSourceNotExist")
               /\ NothingBuilt(h)
          /\ (~accountResponse.err
                /\ accountResponse.SequenceNumber \notin NumericSequenceNumbers) =>
               /\ RespondedOnly(h, "ServerError")
               /\ NothingBuilt(h)
          /\ (~accountResponse.err
                /\ accountResponse.SequenceNumber \in NumericSequenceNumbers) =>
               /\ pc[h] # "loadSource"
               /\ \A i \in 1..Len(trace[h]) :
                    trace[h][i].ev = "writeError" =>
                      trace[h][i] # WriteError("PaymentSourceNotExist")

\* a native payment whose destination loaded and whose source account came
\* back with sequence number 18446744073709551616
C16_Witness ==
  \E h \in Handlers :
    /\ NativePaymentRequest(h)
    /\ Len(Calls(h, "LoadAccount")) = 2
    /\ ~SourceLoads(h)[1].reply.err
    /\ SourceLoads(h)[1].reply.SequenceNumber = OverUint64Str
    /\ Responses(h) = <<WriteError("ServerError")>>

(***************************************************************************)
(* C17: no retries.  Within one execution Horizon.SubmitTransaction is     *)
(* called at most once, and only after the source was validated, the       *)
(* destination resolved and validated, the operation and the memo built    *)
(* without error, the source account loaded and the transaction built and  *)
(* encoded without error; nothing was answered before the submission, one  *)
(* response follows it, and after a failed submission nothing is submitted *)
(* again.                                                                  *)
(***************************************************************************)
\* the place of the first SubmitTransaction call in the trace
FirstSubmit(h) == CHOOSE k \in 1..Len(trace[h]) :
                    /\ trace[h][k].ev = "SubmitTransaction"
                    /\ \A i \in 1..(k - 1) : trace[h][i].ev # "SubmitTransaction"

C17_SubmittedOnceAfterEveryStage ==
  \A h \in Handlers :
    /\ Len(Calls(h, "SubmitTransaction")) <= 1
    /\ Calls(h, "SubmitTransaction") # <<>> =>
         LET k == FirstSubmit(h)
             submit == trace[h][k]
         IN  /\ sourceKeypair[h] # Nil /\ ~sourceKeypair[h].err
             /\ Len(Calls(h, "Resolve")) = 1
             /\ ~Calls(h, "Resolve")[1].reply.err
             /\ ~KeypairParse(destinationObject[h].AccountId).err
             /\ operationBuilder[h] # Nil /\ operationBuilder[h].Err = Nil
             /\ ReachedMemo(h)
             /\ ~InvalidOwnMemo(h)
             /\ NoMemoError(h)
             /\ (memoMutator[h] = Nil) <=>
                  (form[h]["memo_type"] = "" /\ destinationObject[h].MemoType = Nil)
             /\ SourceLoaded(h)
             /\ tx[h] # Nil /\ tx[h].Err = Nil
             /\ tx[h].Operation = operationBuilder[h]
             /\ tx[h].Memo = memoMutator[h]
             /\ txeB64[h] # Nil /\ txeB64[h].tx = tx[h]
             /\ submit.arg = txeB64[h]
             /\ \A i \in 1..(k - 1) : trace[h][i].ev \notin {"writeError", "write"}
             /\ pc[h] = "done"
             /\ Len(trace[h]) = k + 1
             /\ trace[h][k + 1].ev \in {"writeError", "write"}
             /\ submit.reply.err => trace[h][k + 1] = WriteError("ServerError")

\* a submission that failed: it is the last call of the execution
C17_Witness ==
  \E h \in Handlers :
    /\ Len(Calls(h, "SubmitTransaction")) = 1
    /\ Calls(h, "SubmitTransaction")[1].reply.err
    /\ pc[h] = "done"
    /\ trace[h][Len(trace[h])] = WriteError("ServerError")
    /\ trace[h][Len(trace[h]) - 1].ev = "SubmitTransaction"

(***************************************************************************)
(* C18: every execution of Payment ends having written exactly one         *)
(* response, an error code of the taxonomy or the submission response,     *)
(* whatever the form and the collaborators' replies; it never aborts       *)
(* without a response.                                                     *)
(***************************************************************************)
ErrorCodes ==
  {"PaymentInvalidSource", "PaymentCannotResolveDestination",
   "PaymentInvalidDestination", "PaymentInvalidType", "PaymentMissingParamMemo",
   "PaymentCannotUseMemo", "PaymentInvalidMemo", "PaymentMissingParamAsset",
   "PaymentInvalidIssuer", "PaymentMalformedAssetCode", "PaymentInvalidAmount",
   "PaymentSourceNotExist", "ServerError"}

C18_ExactlyOneResponse ==
  \A h \in Handlers :
    /\ pc[h] # "panic"
    /\ Len(Responses(h)) <= 1
    /\ Terminated(h) =>
         /\ Len(Responses(h)) = 1
         /\ Responses(h)[1].ev = "writeError" => Responses(h)[1].arg \in ErrorCodes

====
